---- MODULE Spec2Model ----
(***************************************************************************)
(* AnsysXMLConverter (src/index.py): clean_numeric, _get_xml_header,       *)
(* _get_xml_footer, build_material_block and convert.                      *)
(*                                                                         *)
(* Text is a sequence of tokens.  A token is one character of text, one    *)
(* piece of markup (a start tag, an end tag, an empty-element tag, the XML *)
(* declaration) or one formatted float.  The converter builds its output   *)
(* by string concatenation, so the document is the concatenation of the    *)
(* template's tokens and of the tokens of the input text, inserted as they *)
(* are: nothing in the document tells the two apart.                       *)
(***************************************************************************)
EXTENDS Integers, Sequences, FiniteSets, TLC

\* ------------------------------------------------------------------ bounds
\* Longest text handed to clean_numeric.
MaxLen == 4
\* Most rows of a dataset.
MaxRows == 2

\* ------------------------------------------------------------------ values
\* A float is <<m, e>>, standing for m * 10^e, with m not divisible by 10
\* (0.0 is <<0, 0>>), so that equal numbers are equal pairs.
Zero == <<0, 0>>

RECURSIVE Norm(_, _)
Norm(m, e) ==
    IF m = 0 THEN Zero
    ELSE IF m % 10 = 0 THEN Norm(m \div 10, e + 1)
    ELSE <<m, e>>

\* One character of text, and a piece of the template's fixed text.
Chr(c) == [k |-> "text", n |-> c, a |-> <<>>, v |-> Zero]
Txt(c) == Chr(c)
Open(n, a) == [k |-> "open", n |-> n, a |-> a, v |-> Zero]
Close(n) == [k |-> "close", n |-> n, a |-> <<>>, v |-> Zero]
Empty(n, a) == [k |-> "empty", n |-> n, a |-> a, v |-> Zero]
\* The text an f-string makes of a float, kept as the float it denotes.
Flt(v) == [k |-> "float", n |-> "", a |-> <<>>, v |-> v]

\* A literal: the text of the characters cs.
T(cs) == [i \in 1..Len(cs) |-> Chr(cs[i])]

\* The character of a token; markup starts with "<".
Ch(t) == IF t.k = "text" THEN t.n ELSE "<"

\* A cell of the DataFrame, or any value handed to clean_numeric.
\*   none    None (also pd.NA, NaT)      nan     float('nan')
\*   str     text s                      float   the float v
\*   int     the integer v[1]            bool    v[1] = 1 for True
\*   bigint  a Python int beyond the range of float (10**400)
\*   complex a complex number
Cell(kind, s, v) == [kind |-> kind, s |-> s, v |-> v]
None == Cell("none", <<>>, Zero)
NaN == Cell("nan", <<>>, Zero)
Str(s) == Cell("str", s, Zero)
FloatV(v) == Cell("float", <<>>, v)
IntV(i) == Cell("int", <<>>, <<i, 0>>)
BoolV(b) == Cell("bool", <<>>, <<IF b THEN 1 ELSE 0, 0>>)
BigInt == Cell("bigint", <<>>, Zero)
Complex == Cell("complex", <<>>, Zero)

\* ------------------------------------------------------------ str methods
Whitespace == {" "}
Digits == {"0", "7"}
DigitVal(c) == IF c = "7" THEN 7 ELSE 0

\* s.replace(old, ''), old one character.
Remove(s, old) == SelectSeq(s, LAMBDA t : Ch(t) # old)

\* s.replace(old, new), both one character.
Replace(s, old, new) ==
    [i \in 1..Len(s) |-> IF Ch(s[i]) = old THEN Chr(new) ELSE s[i]]

RECURSIVE LStrip(_)
LStrip(s) ==
    IF s # <<>> /\ Ch(s[1]) \in Whitespace THEN LStrip(Tail(s)) ELSE s

RECURSIVE RStrip(_)
RStrip(s) ==
    IF s # <<>> /\ Ch(s[Len(s)]) \in Whitespace
    THEN RStrip(SubSeq(s, 1, Len(s) - 1))
    ELSE s

\* s.strip()
Strip(s) == RStrip(LStrip(s))

\* ---------------------------------------------------------------- float()
\* The first place of character c in s, or 0.
Find(s, c) ==
    IF \E i \in 1..Len(s) : Ch(s[i]) = c
    THEN CHOOSE i \in 1..Len(s) :
             Ch(s[i]) = c /\ \A j \in 1..(i - 1) : Ch(s[j]) # c
    ELSE 0

AllDigits(s) == \A i \in 1..Len(s) : Ch(s[i]) \in Digits

RECURSIVE DigitsVal(_)
DigitsVal(s) ==
    IF s = <<>> THEN 0
    ELSE 10 * DigitsVal(SubSeq(s, 1, Len(s) - 1)) + DigitVal(Ch(s[Len(s)]))

Signs == {"+", "-"}
Signed(s) == s # <<>> /\ Ch(s[1]) \in Signs
Unsigned(s) == IF Signed(s) THEN Tail(s) ELSE s
SignOf(s) == IF Signed(s) /\ Ch(s[1]) = "-" THEN -1 ELSE 1

Parsed(val) == [ok |-> TRUE, val |-> val]
NotParsed == [ok |-> FALSE, val |-> Zero]

\* The literal with sign sign, integer part ip, fraction fp, and exponent ed
\* of sign esign when there is an "e" (hasExp).
FloatOf(sign, ip, fp, hasExp, esign, ed) ==
    IF /\ AllDigits(ip) /\ AllDigits(fp) /\ Len(ip) + Len(fp) >= 1
       /\ ~hasExp \/ (ed # <<>> /\ AllDigits(ed))
    THEN Parsed(Norm(sign * DigitsVal(ip \o fp), esign * DigitsVal(ed) - Len(fp)))
    ELSE NotParsed

\* The mantissa mant, with its point at place dot (0 for none).
Mantissa(sign, mant, dot, hasExp, expo) ==
    FloatOf(sign,
            IF dot = 0 THEN mant ELSE SubSeq(mant, 1, dot - 1),
            IF dot = 0 THEN <<>> ELSE SubSeq(mant, dot + 1, Len(mant)),
            hasExp, SignOf(expo), Unsigned(expo))

Exponent(sign, mant, hasExp, expo) ==
    Mantissa(sign, mant, Find(mant, "."), hasExp, expo)

\* The literal without its sign, its first "e" at place ePos (0 for none).
Unsign(sign, body, ePos) ==
    Exponent(sign,
             IF ePos = 0 THEN body ELSE SubSeq(body, 1, ePos - 1),
             ePos # 0,
             IF ePos = 0 THEN <<>> ELSE SubSeq(body, ePos + 1, Len(body)))

Literal(sign, body) == Unsign(sign, body, Find(body, "e"))

Stripped(s) == Literal(SignOf(s), Unsigned(s))

\* float(s) of a text s: Python's grammar of a float literal,
\*   [sign] (digits ["." [digits]] | "." digits) ["e" [sign] digits],
\* between optional whitespace.  ok = FALSE is ValueError.
ParseFloat(s) == Stripped(Strip(s))

\* ----------------------------------------------------------- clean_numeric
Returned(v) == [ok |-> TRUE, val |-> v, exc |-> ""]
Raised(exc) == [ok |-> FALSE, val |-> Zero, exc |-> exc]

\* pd.isna(value)
isna(value) == value.kind \in {"none", "nan"}

\* float(value) of a value that is no text (line 37).
float(value) ==
    CASE value.kind \in {"float", "int", "bool"} ->
             Returned(Norm(value.v[1], value.v[2]))
      [] value.kind = "bigint" -> Raised("OverflowError")
      [] OTHER -> Raised("TypeError")

\* clean_val with the decimal comma left in.
clean_val_NoComma(value) == Strip(Remove(value.s, "\""))

\* Line 32.
clean_val(value) == Strip(Replace(Remove(value.s, "\""), ",", "."))

\* Lines 33-36.
FloatOrZero(p) == IF p.ok THEN Returned(p.val) ELSE Returned(Zero)

clean_numeric(value) ==
    IF isna(value) \/ (value.kind = "str" /\ value.s = <<>>)
    THEN Returned(Zero)
    ELSE IF value.kind = "str"
    THEN FloatOrZero(ParseFloat(clean_val(value)))
    ELSE float(value)

\* ------------------------------------------------------------------ __init__
\* Lines 13-17; a dict keeps the order its keys were written in.
ortho_params ==
    << <<"pa14", "E_x">>, <<"pa15", "E_y">>, <<"pa16", "E_z">>,
       <<"pa17", "Poisson_xy">>, <<"pa18", "Poisson_yz">>,
       <<"pa19", "Poisson_xz">>,
       <<"pa20", "G_xy">>, <<"pa21", "G_yz">>, <<"pa22", "G_xz">> >>

\* Lines 20-25.  A label is a text; the four keys are plain texts.
version_map ==
    << << <<Txt("2024 R1")>>, "24.1.0.0" >>,
       << <<Txt("2024 R2")>>, "24.2.0.0" >>,
       << <<Txt("2025 R1")>>, "25.1.0.0" >>,
       << <<Txt("2025 R2")>>, "25.2.0.233" >> >>

\* dict.get(key, default)
Get(map, key, default) ==
    IF \E i \in 1..Len(map) : map[i][1] = key
    THEN map[CHOOSE i \in 1..Len(map) : map[i][1] = key][2]
    ELSE default

\* ------------------------------------------------------------ _get_xml_header
Attr(name, value) == <<name, value>>
Decl == [k |-> "decl", n |-> "xml", a |-> <<>>, v |-> Zero]

\* tech_version with the oldest version for a label it does not know.
tech_version_Oldest(ui_version) == Get(version_map, ui_version, "24.1.0.0")

\* Line 41.
tech_version(ui_version) == Get(version_map, ui_version, "25.2.0.233")

\* Lines 39-49; current_date is datetime.now(), formatted.  The template's
\* indentation and line breaks are left out.
_get_xml_header(ui_version, current_date) ==
    << Decl,
       Open("EngineeringData", << Attr("version", tech_version(ui_version)),
                                  Attr("versiondate", current_date) >>),
       Open("Notes", <<>>),
       Txt("Gerado via Streamlit - Versao Ansys ") >>
    \o ui_version
    \o << Txt(" - Suporta Ortotropia"),
          Close("Notes"),
          Open("Materials", <<>>),
          Open("MatML_Doc", <<>>) >>

\* ------------------------------------------------------------ _get_xml_footer
Named(name) == << Open("Name", <<>>), Txt(name), Close("Name") >>
Unitless == << Empty("Unitless", <<>>) >>
StressUnits ==
    << Open("Units", <<Attr("name", "Stress")>>), Open("Unit", <<>>) >>
    \o Named("Pa") \o << Close("Unit"), Close("Units") >>
DensityUnits ==
    << Open("Units", <<Attr("name", "Density")>>), Open("Unit", <<>>) >>
    \o Named("kg")
    \o << Close("Unit"), Open("Unit", <<Attr("power", "-3")>>) >>
    \o Named("m") \o << Close("Unit"), Close("Units") >>

ParameterDetails(id, name, units) ==
    << Open("ParameterDetails", <<Attr("id", id)>>) >>
    \o Named(name) \o units \o << Close("ParameterDetails") >>

PropertyDetails(id, name) ==
    << Open("PropertyDetails", <<Attr("id", id)>>) >>
    \o Named(name) \o << Close("PropertyDetails") >>

\* OrthoDetails with the last loop one entry short (range(20, 22)).
OrthoDetails_Short ==
    << <<"pa14", "Young's Modulus X direction", StressUnits>>,
       <<"pa15", "Young's Modulus Y direction", StressUnits>>,
       <<"pa16", "Young's Modulus Z direction", StressUnits>>,
       <<"pa17", "Poisson's Ratio XY", Unitless>>,
       <<"pa18", "Poisson's Ratio YZ", Unitless>>,
       <<"pa19", "Poisson's Ratio XZ", Unitless>>,
       <<"pa20", "Shear Modulus XY", StressUnits>>,
       <<"pa21", "Shear Modulus YZ", StressUnits>> >>

\* Lines 60-65: the three loops, zip(range(..), axes) written out.
OrthoDetails ==
    << <<"pa14", "Young's Modulus X direction", StressUnits>>,
       <<"pa15", "Young's Modulus Y direction", StressUnits>>,
       <<"pa16", "Young's Modulus Z direction", StressUnits>>,
       <<"pa17", "Poisson's Ratio XY", Unitless>>,
       <<"pa18", "Poisson's Ratio YZ", Unitless>>,
       <<"pa19", "Poisson's Ratio XZ", Unitless>>,
       <<"pa20", "Shear Modulus XY", StressUnits>>,
       <<"pa21", "Shear Modulus YZ", StressUnits>>,
       <<"pa22", "Shear Modulus XZ", StressUnits>> >>

\* Lines 54-57, then the loops' entries.
FooterDetails ==
    << <<"pa0", "Options Variable", Unitless>>,
       <<"pa1", "Density", DensityUnits>>,
       <<"pa2", "Young's Modulus", StressUnits>>,
       <<"pa3", "Poisson's Ratio", Unitless>> >>
    \o OrthoDetails

RECURSIVE DetailsOf(_)
DetailsOf(ds) ==
    IF ds = <<>> THEN <<>>
    ELSE ParameterDetails(ds[1][1], ds[1][2], ds[1][3]) \o DetailsOf(Tail(ds))

\* Lines 51-70.
_get_xml_footer ==
    << Open("Metadata", <<>>) >>
    \o DetailsOf(FooterDetails)
    \o PropertyDetails("pr0", "Density")
    \o PropertyDetails("pr1", "Elasticity")
    \o << Close("Metadata"), Close("MatML_Doc"), Close("Materials"),
          Close("EngineeringData") >>

\* ------------------------------------------------------- build_material_block
\* The letters the texts of the model are written with.
UpperCase == <<"A", "B", "C", "F", "H", "I", "N", "O", "P", "R", "S", "T">>
LowerCase == <<"a", "b", "c", "f", "h", "i", "n", "o", "p", "r", "s", "t">>

\* c.lower() and c.upper() of one character.
lower(c) ==
    IF \E i \in 1..Len(UpperCase) : UpperCase[i] = c
    THEN LowerCase[CHOOSE i \in 1..Len(UpperCase) : UpperCase[i] = c]
    ELSE c
upper(c) ==
    IF \E i \in 1..Len(LowerCase) : LowerCase[i] = c
    THEN UpperCase[CHOOSE i \in 1..Len(LowerCase) : LowerCase[i] = c]
    ELSE c

\* The lower case of the name of a piece of markup.
LowerName(n) ==
    CASE n = "Qualifier" -> "qualifier"
      [] n = "ParameterValue" -> "parametervalue"
      [] n = "PropertyData" -> "propertydata"
      [] OTHER -> n

\* A token in lower case: markup is text too, and its letters are lowered.
LowerTok(t) ==
    IF t.k = "text" THEN Chr(lower(t.n)) ELSE [t EXCEPT !.n = LowerName(t.n)]

\* s.capitalize(): the first character in upper case, the rest in lower
\* case.  The first character of a piece of markup is "<".
capitalize(s) ==
    [i \in 1..Len(s) |->
        IF i = 1 /\ s[i].k = "text" THEN Chr(upper(s[i].n)) ELSE LowerTok(s[i])]

\* str(cell)
str(cell) ==
    CASE cell.kind = "str" -> cell.s
      [] cell.kind = "nan" -> T(<<"n", "a", "n">>)
      [] cell.kind = "none" -> T(<<"N", "o", "n", "e">>)
      [] OTHER -> <<Flt(cell.v)>>

Isotropic == T(<<"I", "s", "o", "t", "r", "o", "p", "i", "c">>)

\* tipo_of without the strip().
tipo_of_NoStrip(row) == capitalize(str(row["Tipo"]))

\* Line 75.
tipo_of(row) == capitalize(Strip(str(row["Tipo"])))

Built(block) == [ok |-> TRUE, exc |-> "", block |-> block]
Failed(exc) == [ok |-> FALSE, exc |-> exc, block |-> <<>>]

Dependent ==
    << Open("Qualifier", <<Attr("name", "Variable Type")>>), Txt("Dependent"),
       Close("Qualifier") >>

\* One float entry (lines 87, 98, 99, 103).
FloatValue(pa_id, val) ==
    << Open("ParameterValue", <<Attr("parameter", pa_id), Attr("format", "float")>>),
       Open("Data", <<>>), Flt(val), Close("Data") >>
    \o Dependent \o << Close("ParameterValue") >>

\* The pa0 entry of the Density block (line 86) and of the Elasticity block
\* (line 94).
Options(qualified) ==
    << Open("ParameterValue", <<Attr("parameter", "pa0"), Attr("format", "string")>>),
       Open("Data", <<>>), Txt("Interpolation Options"), Close("Data") >>
    \o (IF qualified
        THEN << Open("Qualifier", <<Attr("name", "AlgorithmType")>>),
                Txt("Linear Multivariate (Qhull)"), Close("Qualifier") >>
        ELSE <<>>)
    \o << Close("ParameterValue") >>

DataDash == << Open("Data", <<Attr("format", "string")>>), Txt("-"), Close("Data") >>

RECURSIVE Concat(_)
Concat(ss) == IF ss = <<>> THEN <<>> ELSE ss[1] \o Concat(Tail(ss))

\* clean_numeric(row[col]); the lookup raises KeyError for an absent column.
Lookup(row, col) ==
    IF col \notin DOMAIN row THEN Raised("KeyError") ELSE clean_numeric(row[col])

\* Lookup with row.get(col, 0.0) for row[col].
Lookup_Default(row, col) ==
    IF col \notin DOMAIN row THEN Returned(Zero) ELSE clean_numeric(row[col])

\* The entries of params with the values vals; the first failure ends it.
EntriesOf(params, vals, bad) ==
    IF bad # {}
    THEN Failed(vals[CHOOSE i \in bad : \A j \in bad : i <= j].exc)
    ELSE Built(Concat([i \in 1..Len(params) |->
             FloatValue(params[i][1], vals[i].val)]))

Checked(params, vals) ==
    EntriesOf(params, vals, {i \in 1..Len(params) : ~vals[i].ok})

\* Entries with 0.0 for an absent column.
Entries_Default(row, params) ==
    Checked(params, [i \in 1..Len(params) |-> Lookup_Default(row, params[i][2])])

\* row[col] then clean_numeric, for each entry of params in order (lines
\* 98-99 and 101-103).
Entries(row, params) ==
    Checked(params, [i \in 1..Len(params) |-> Lookup(row, params[i][2])])

\* Lines 98-99.
iso_params == << <<"pa2", "E_x">>, <<"pa3", "Poisson_xy">> >>

DeriveFrom ==
    << Open("Qualifier", <<Attr("name", "Derive from")>>),
       Txt("Young's Modulus and Poisson's Ratio"), Close("Qualifier") >>

\* Lines 91-105, with the float entries ents.
ElasticityBlock(tipo, ents) ==
    IF ~ents.ok THEN ents
    ELSE Built(
        << Open("PropertyData", <<Attr("property", "pr1")>>) >>
        \o DataDash
        \o << Open("Qualifier", <<Attr("name", "Behavior")>>) >>
        \o tipo
        \o << Close("Qualifier") >>
        \o Options(FALSE)
        \o (IF tipo = Isotropic THEN DeriveFrom ELSE <<>>)
        \o ents.block
        \o << Close("PropertyData") >>)

\* Lines 96-103.
Elasticity(row, tipo) ==
    ElasticityBlock(tipo,
        Entries(row, IF tipo = Isotropic THEN iso_params ELSE ortho_params))

\* Lines 78-106, with the Elasticity block el.
MaterialBlock(nome, desc, dens, el) ==
    IF ~el.ok THEN el
    ELSE Built(
        << Open("Material", <<>>), Open("BulkDetails", <<>>),
           Open("Name", <<>>) >>
        \o nome
        \o << Close("Name"), Open("Description", <<>>) >>
        \o desc
        \o << Close("Description"), Open("Class", <<>>) >>
        \o Named("Composite")
        \o << Close("Class"),
              Open("PropertyData", <<Attr("property", "pr0")>>) >>
        \o DataDash
        \o Options(TRUE)
        \o FloatValue("pa1", dens)
        \o << Close("PropertyData") >>
        \o el.block
        \o << Close("BulkDetails"), Close("Material") >>)

\* Lines 76-106, with what clean_numeric gave for Densidade.
AfterDensity(row, dens) ==
    IF ~dens.ok THEN Failed(dens.exc)
    ELSE MaterialBlock(str(row["Nome"]), str(row["Descricao"]), dens.val,
                       Elasticity(row, tipo_of(row)))

\* Lines 72-106.
build_material_block(row) ==
    IF \E c \in {"Nome", "Descricao", "Tipo", "Densidade"} : c \notin DOMAIN row
    THEN Failed("KeyError")
    ELSE AfterDensity(row, clean_numeric(row["Densidade"]))

\* ---------------------------------------------------------------------- state
VARIABLES
    pc,          \* where the program is: in convert ("start", "rows", "done",
                 \* "failed") or in a call of clean_numeric ("call", "return")
    columns,     \* df.columns
    df,          \* the rows of the DataFrame: each a function on columns
    ui_version,  \* the label handed to convert
    xml_out,     \* convert's local xml_out
    idx,         \* the row df.iterrows() is at
    err,         \* the exception convert ended with, "" when none
    ret,         \* what convert returned (final_xml, line 176)
    value,       \* the argument of a call of clean_numeric
    result       \* what that call returned or raised

vars == <<pc, columns, df, ui_version, xml_out, idx, err, ret, value, result>>

\* ---------------------------------------------------------------------- inputs
\* Line 188; "Descricao" stands for the column Descrição.
TextColumns == <<"Nome", "Descricao", "Tipo">>
NumColumns ==
    <<"Densidade", "E_x", "E_y", "E_z", "Poisson_xy", "Poisson_yz",
      "Poisson_xz", "G_xy", "G_yz", "G_xz">>
Range(s) == {s[i] : i \in 1..Len(s)}
AllColumns == Range(TextColumns) \cup Range(NumColumns)

\* The characters of the texts handed to clean_numeric.
Alphabet == {"7", "0", ",", ".", "\"", " ", "e", "+", "-"}
Texts == UNION {[1..n -> Alphabet] : n \in 0..MaxLen}
Values ==
    {None, NaN, BigInt, Complex, BoolV(TRUE), IntV(7), FloatV(<<35, -1>>)}
    \cup {Str(T(cs)) : cs \in Texts}

\* Names and descriptions: plain ones, and ones that hold markup.
NameA == T(<<"A">>)
NameB == T(<<"B">>)
NameSplit ==
    T(<<"A">>)
    \o << Close("Name"), Close("BulkDetails"), Close("Material"),
          Open("Material", <<>>), Open("BulkDetails", <<>>), Open("Name", <<>>) >>
    \o T(<<"B">>)
NameRef ==
    << Empty("ParameterValue", <<Attr("parameter", "pa5"), Attr("format", "float")>>) >>
DescPlain == T(<<"a", "b">>)
DescOpen == << Open("b", <<>>) >> \o T(<<"a">>)

\* Types as a spreadsheet holds them.
TypeIso == Str(Isotropic)
TypeIsoLower == Str(T(<<" ", "i", "s", "o", "t", "r", "o", "p", "i", "c", " ">>))
TypeIsoUpper == Str(T(<<"I", "S", "O", "T", "R", "O", "P", "I", "C">>))
TypeOrtho == Str(T(<<"O", "r", "t", "h", "o", "t", "r", "o", "p", "i", "c">>))
TypeOrthoUpper ==
    Str(T(<<"O", "R", "T", "H", "O", "T", "R", "O", "P", "I", "C", " ">>))
TypeOther == Str(T(<<"f", "o", "o">>))
TypeMarkup ==
    Str(T(<<"f">>)
        \o << Close("Qualifier"),
              Empty("ParameterValue", <<Attr("parameter", "pa2"), Attr("format", "float")>>),
              Open("Qualifier", <<>>) >>)

\* j written in base 2 with the digits 7 and 0: one numeral for each column.
RECURSIVE Numeral(_)
Numeral(j) ==
    IF j <= 0 THEN <<>>
    ELSE Numeral(j \div 2) \o <<IF j % 2 = 1 THEN "7" ELSE "0">>

\* The numeric cells of a row, the j-th numeric column given a value of its
\* own: floats; quoted decimal-comma texts; blanks and garbage; and floats
\* but for an integer beyond the range of float in E_y.
NumCell(profile, j) ==
    CASE profile = "float" -> FloatV(<<7, j>>)
      [] profile = "comma" -> Str(T(<<"\"">> \o Numeral(j) \o <<",", "7", "\"">>))
      [] profile = "dirty" ->
             IF j % 3 = 0 THEN NaN
             ELSE IF j % 3 = 1 THEN Str(T(<<"7", "e">>)) ELSE Str(<<>>)
      [] OTHER -> IF NumColumns[j] = "E_y" THEN BigInt ELSE FloatV(<<7, j>>)

MkRow(nome, desc, tipo, profile) ==
    [c \in AllColumns |->
        CASE c = "Nome" -> Str(nome)
          [] c = "Descricao" -> Str(desc)
          [] c = "Tipo" -> tipo
          [] OTHER -> NumCell(profile,
                              CHOOSE j \in 1..Len(NumColumns) : NumColumns[j] = c)]

RowSet ==
    {MkRow(NameA, DescPlain, TypeIso, "float"),
     MkRow(NameA, DescPlain, TypeIsoLower, "comma"),
     MkRow(NameB, DescPlain, TypeIsoUpper, "dirty"),
     MkRow(NameB, DescPlain, TypeOrthoUpper, "comma"),
     MkRow(NameA, DescPlain, TypeOther, "dirty"),
     MkRow(NameA, DescPlain, TypeMarkup, "float"),
     MkRow(NameSplit, DescOpen, TypeIso, "float"),
     MkRow(NameRef, DescPlain, TypeOrtho, "float"),
     MkRow(NameB, DescPlain, TypeOrtho, "bigint")}

\* The labels: the four of the selectbox (line 122), one it does not offer,
\* and one that holds markup.
Labels ==
    {version_map[i][1] : i \in 1..Len(version_map)}
    \cup { <<Txt("2026 R1")>>,
           << Txt("x"), Close("Notes"), Open("Notes", <<>>) >> }

\* datetime.now(), formatted (line 42).
Clock == {"01/01/2026 00:00:00", "05/11/2026 12:30:00"}

Datasets(rows) == UNION {[1..n -> rows] : n \in 0..MaxRows}

Restrict(row, cols) == [c \in cols |-> row[c]]

\* ------------------------------------------------------------------- convert
InitConvert ==
    /\ pc = "start"
    /\ xml_out = <<>>
    /\ idx = 0
    /\ err = ""
    /\ ret = <<>>
    /\ value = None
    /\ result = Returned(Zero)

\* A dataset with every column, any label.
Init ==
    /\ InitConvert
    /\ columns = AllColumns
    /\ df \in Datasets(RowSet)
    /\ ui_version \in Labels

\* Line 110.
GetHeader ==
    /\ pc = "start"
    /\ \E current_date \in Clock :
           xml_out' = _get_xml_header(ui_version, current_date)
    /\ idx' = 1
    /\ pc' = "rows"
    /\ UNCHANGED <<columns, df, ui_version, err, ret, value, result>>

\* Line 112 with the block b; an exception leaves convert, and xml_out
\* with it.
AppendBlock(b) ==
    IF b.ok
    THEN /\ xml_out' = xml_out \o b.block
         /\ idx' = idx + 1
         /\ UNCHANGED <<pc, err>>
    ELSE /\ pc' = "failed"
         /\ err' = b.exc
         /\ xml_out' = <<>>
         /\ UNCHANGED idx

\* Lines 111-112, one row.
BuildBlock ==
    /\ pc = "rows"
    /\ idx <= Len(df)
    /\ AppendBlock(build_material_block(df[idx]))
    /\ UNCHANGED <<columns, df, ui_version, ret, value, result>>

\* Lines 113-114.
GetFooter ==
    /\ pc = "rows"
    /\ idx > Len(df)
    /\ ret' = xml_out \o _get_xml_footer
    /\ xml_out' = <<>>
    /\ pc' = "done"
    /\ UNCHANGED <<columns, df, ui_version, idx, err, value, result>>

Next == GetHeader \/ BuildBlock \/ GetFooter

Spec == Init /\ [][Next]_vars

\* ------------------------------------------------- convert, a column missing
ColRows ==
    {MkRow(NameA, DescPlain, TypeIso, "float"),
     MkRow(NameB, DescPlain, TypeOrtho, "comma"),
     MkRow(NameB, DescPlain, TypeOther, "dirty"),
     MkRow(NameA, DescPlain, TypeOrtho, "bigint")}

\* A dataset with every column or with one missing.
InitCols ==
    /\ InitConvert
    /\ columns \in {AllColumns} \cup {AllColumns \ {c} : c \in AllColumns}
    /\ df \in {[i \in DOMAIN d |-> Restrict(d[i], columns)] : d \in Datasets(ColRows)}
    /\ ui_version = <<Txt("2025 R2")>>

SpecCols == InitCols /\ [][Next]_vars

\* ---------------------------------------------------- a call of clean_numeric
InitClean ==
    /\ pc = "call"
    /\ value \in Values
    /\ result = Returned(Zero)
    /\ columns = AllColumns
    /\ df = <<>>
    /\ ui_version = <<>>
    /\ xml_out = <<>>
    /\ idx = 0
    /\ err = ""
    /\ ret = <<>>

CleanNumeric ==
    /\ pc = "call"
    /\ result' = clean_numeric(value)
    /\ pc' = "return"
    /\ UNCHANGED <<columns, df, ui_version, xml_out, idx, err, ret, value>>

NextClean == CleanNumeric

SpecClean == InitClean /\ [][NextClean]_vars

\* ------------------------------------------------------ reading a document
Min(S) == CHOOSE i \in S : \A j \in S : i <= j
Max(S) == CHOOSE i \in S : \A j \in S : i >= j

\* A start tag or an empty-element tag of the element called name.
IsStart(t, name) == t.k \in {"open", "empty"} /\ t.n = name
IsEnd(t, name) == t.k = "close" /\ t.n = name

AttrOf(t, name) ==
    IF \E i \in 1..Len(t.a) : t.a[i][1] = name
    THEN t.a[CHOOSE i \in 1..Len(t.a) : t.a[i][1] = name][2]
    ELSE ""

\* Where the elements called name start, in document order.
Starts(doc, name) ==
    SelectSeq([i \in 1..Len(doc) |-> i], LAMBDA i : IsStart(doc[i], name))

\* The document from the last start of an element called name with
\* attribute attr = val on (any such element when attr is "").
FromLast(doc, name, attr, val) ==
    LET at == {i \in 1..Len(doc) :
                  /\ IsStart(doc[i], name)
                  /\ attr = "" \/ AttrOf(doc[i], attr) = val}
    IN  IF at = {} THEN <<>> ELSE SubSeq(doc, Max(at), Len(doc))

\* The Metadata section the document ends with.
MetadataOf(doc) == FromLast(doc, "Metadata", "", "")

\* The identifiers of the entries called name, in order.
DetailIds(doc, name) ==
    LET at == Starts(doc, name)
    IN  [i \in 1..Len(at) |-> AttrOf(doc[at[i]], "id")]

\* The text between the first start of an element called name at or after
\* place i and the first end of such an element after it.
TextOf(doc, i, name) ==
    LET o == Min({j \in i..Len(doc) : IsStart(doc[j], name)})
        c == Min({j \in o..Len(doc) : IsEnd(doc[j], name)})
    IN  SubSeq(doc, o + 1, c - 1)

\* The float entries of a document: each <<parameter, value>>, in order.
FloatEntries(doc) ==
    LET at == SelectSeq([i \in 1..Len(doc) |-> i],
                        LAMBDA i : /\ IsStart(doc[i], "ParameterValue")
                                   /\ AttrOf(doc[i], "format") = "float"
                                   /\ i + 2 <= Len(doc)
                                   /\ doc[i + 2].k = "float")
    IN  [i \in 1..Len(at) |->
            <<AttrOf(doc[at[i]], "parameter"), doc[at[i] + 2].v>>]

\* The Elasticity block the document ends with.
ElasticityOf(doc) == FromLast(doc, "PropertyData", "property", "pr1")

\* A text without the whitespace around it, in lower case.
Folded(s) ==
    LET ink == {i \in 1..Len(s) : Ch(s[i]) \notin Whitespace}
        cut == IF ink = {} THEN <<>> ELSE SubSeq(s, Min(ink), Max(ink))
    IN  [i \in 1..Len(cut) |-> LowerTok(cut[i])]

FoldedType(row) == Folded(str(row["Tipo"]))
isotropic == T(<<"i", "s", "o", "t", "r", "o", "p", "i", "c">>)
orthotropic == T(<<"o", "r", "t", "h", "o", "t", "r", "o", "p", "i", "c">>)

\* The row convert has just appended the block of.
Appended == pc = "rows" /\ idx > 1
LastRow == df[idx - 1]

\* --------------------------------------------------------------------- C1
Pa0to22 ==
    <<"pa0", "pa1", "pa2", "pa3", "pa4", "pa5", "pa6", "pa7", "pa8", "pa9",
      "pa10", "pa11", "pa12", "pa13", "pa14", "pa15", "pa16", "pa17", "pa18",
      "pa19", "pa20", "pa21", "pa22">>
PaUsed ==
    <<"pa0", "pa1", "pa2", "pa3", "pa14", "pa15", "pa16", "pa17", "pa18",
      "pa19", "pa20", "pa21", "pa22">>

\* C1, as the spec states it: the Metadata section of every document convert
\* returns holds exactly 23 ParameterDetails entries, one for each of pa0 to
\* pa22, and exactly the 2 PropertyDetails entries pr0 and pr1.
C1_Metadata23 ==
    pc = "done" =>
        /\ DetailIds(MetadataOf(ret), "ParameterDetails") = Pa0to22
        /\ DetailIds(MetadataOf(ret), "PropertyDetails") = <<"pr0", "pr1">>

\* C1, amended: every document convert returns ends with a Metadata section
\* that holds exactly 13 ParameterDetails entries, pa0 to pa3 and pa14 to
\* pa22 in that order, and exactly the 2 PropertyDetails entries pr0 and pr1,
\* whatever the rows (none included) and the label.
C1_Metadata13 ==
    pc = "done" =>
        /\ DetailIds(MetadataOf(ret), "ParameterDetails") = PaUsed
        /\ Len(DetailIds(MetadataOf(ret), "ParameterDetails")) = 13
        /\ DetailIds(MetadataOf(ret), "PropertyDetails") = <<"pr0", "pr1">>
        /\ IsEnd(ret[Len(ret)], "EngineeringData")

C1_Witness ==
    /\ pc = "done"
    /\ df = <<>>
    /\ Len(DetailIds(MetadataOf(ret), "ParameterDetails")) = 13

\* --------------------------------------------------------------------- C2
\* C2: a call of clean_numeric returns a float and raises nothing, whatever
\* the value.
C2_Total == pc = "return" => result.ok

\* --------------------------------------------------------------------- C3
Has(s, c) == \E i \in 1..Len(s) : Ch(s[i]) = c

\* The text the claim has parsed: without double quotes, points for commas,
\* no whitespace around it.
Cleaned(s) ==
    LET unquoted == SelectSeq(s, LAMBDA t : Ch(t) # "\"")
        pointed == [i \in 1..Len(unquoted) |->
                       IF Ch(unquoted[i]) = "," THEN Chr(".") ELSE unquoted[i]]
        ink == {i \in 1..Len(pointed) : Ch(pointed[i]) # " "}
    IN  IF ink = {} THEN <<>> ELSE SubSeq(pointed, Min(ink), Max(ink))

\* C3: clean_numeric returns 0.0 for the empty text, for None and NaN and for
\* a text that, cleaned, is no float literal; for any other text it returns
\* the float the cleaned text denotes.
C3_CleanNumeric ==
    pc = "return" =>
        /\ (value \in {None, NaN, Str(<<>>)} => result = Returned(Zero))
        /\ value.kind = "str" =>
               LET p == ParseFloat(Cleaned(value.s))
               IN  result = Returned(IF p.ok THEN p.val ELSE Zero)

C3_Witness ==
    /\ pc = "return"
    /\ value.kind = "str"
    /\ Has(value.s, ",")
    /\ Has(value.s, "\"")
    /\ result.ok
    /\ result.val = <<77, -1>>

\* --------------------------------------------------------------------- C4
\* The entries the claim names for a row: <<parameter, column>>, in order.
ClaimedParams(row) ==
    IF FoldedType(row) = isotropic
    THEN << <<"pa2", "E_x">>, <<"pa3", "Poisson_xy">> >>
    ELSE << <<"pa14", "E_x">>, <<"pa15", "E_y">>, <<"pa16", "E_z">>,
            <<"pa17", "Poisson_xy">>, <<"pa18", "Poisson_yz">>,
            <<"pa19", "Poisson_xz">>, <<"pa20", "G_xy">>, <<"pa21", "G_yz">>,
            <<"pa22", "G_xz">> >>

\* C4: the float entries of the Elasticity block of a row are pa2 (E_x) then
\* pa3 (Poisson_xy) and no other when the row's Type, trimmed and in any
\* case, is Isotropic, and else pa14 to pa22 in that order, from E_x, E_y,
\* E_z, Poisson_xy, Poisson_yz, Poisson_xz, G_xy, G_yz, G_xz, and no other.
C4_ElasticityEntries ==
    Appended =>
        LET got == FloatEntries(ElasticityOf(xml_out))
            want == ClaimedParams(LastRow)
        IN  /\ Len(got) = Len(want)
            /\ \A i \in 1..Len(want) :
                   /\ got[i][1] = want[i][1]
                   /\ got[i][2] = clean_numeric(LastRow[want[i][2]]).val

C4_Witness ==
    /\ Appended
    /\ LastRow["Tipo"] = TypeIsoLower
    /\ Len(FloatEntries(ElasticityOf(xml_out))) = 2

\* --------------------------------------------------------------------- C5
\* C5: the document convert returns for N rows holds exactly N Material
\* blocks, all between the header and the Metadata section, the k-th with
\* the Name of the k-th row.
C5_RowOrder ==
    pc = "done" =>
        LET ms == Starts(ret, "Material")
        IN  /\ Len(ms) = Len(df)
            /\ \A k \in 1..Len(ms) :
                   /\ Min({i \in 1..Len(ret) : IsStart(ret[i], "MatML_Doc")}) < ms[k]
                   /\ ms[k] < Max({i \in 1..Len(ret) : IsStart(ret[i], "Metadata")})
            /\ \A k \in 1..Len(df) :
                   k <= Len(ms) => TextOf(ret, ms[k], "Name") = str(df[k]["Nome"])

\* --------------------------------------------------------------------- C6
\* The technical string the claim gives for a label.
ClaimedVersion(label) ==
    CASE label = <<Txt("2024 R1")>> -> "24.1.0.0"
      [] label = <<Txt("2024 R2")>> -> "24.2.0.0"
      [] label = <<Txt("2025 R1")>> -> "25.1.0.0"
      [] label = <<Txt("2025 R2")>> -> "25.2.0.233"
      [] OTHER -> "25.2.0.233"

RootVersion(doc) ==
    AttrOf(doc[Min({i \in 1..Len(doc) : IsStart(doc[i], "EngineeringData")})],
           "version")

\* C6: the version attribute of the root element is the technical string of
\* the label for the four known labels and 25.2.0.233 for any other label,
\* and no label makes the header fail.
C6_VersionAttribute ==
    /\ pc = "rows" => RootVersion(xml_out) = ClaimedVersion(ui_version)
    /\ pc = "done" => RootVersion(ret) = ClaimedVersion(ui_version)
    /\ pc = "failed" => Len(df) > 0

C6_Witness ==
    /\ pc = "done"
    /\ ui_version = <<Txt("2026 R1")>>
    /\ RootVersion(ret) = "25.2.0.233"

\* --------------------------------------------------------------------- C7
\* The columns the block of a row is built from.
ColumnsRead(row) ==
    {"Nome", "Descricao", "Tipo", "Densidade"}
    \cup (IF "Tipo" \notin DOMAIN row THEN {}
          ELSE IF FoldedType(row) = isotropic
          THEN {"E_x", "Poisson_xy"}
          ELSE {"E_x", "E_y", "E_z", "Poisson_xy", "Poisson_yz", "Poisson_xz",
                "G_xy", "G_yz", "G_xz"})

Ended == pc \in {"done", "failed"}

\* C7, as the spec states it: with any required column absent, convert fails
\* and returns no document, whatever the rows.
C7_MissingColumnFails ==
    Ended /\ columns # AllColumns => pc = "failed" /\ ret = <<>>

\* C7, amended: convert fails with the KeyError, and returns no document,
\* exactly when a column is absent that the block of some row is built from:
\* Nome, Descricao, Tipo and Densidade for every row, E_x and Poisson_xy for
\* an Isotropic row, the nine elastic columns for any other row.  With no
\* row, or with only rows that do not read the absent column, it returns the
\* whole document.  No default stands in for an absent column.
C7_ReadColumnFails ==
    Ended =>
        LET lacking == \E k \in 1..Len(df) : ~(ColumnsRead(df[k]) \subseteq columns)
        IN  /\ lacking => pc = "failed" /\ ret = <<>>
            /\ pc = "failed" /\ err = "KeyError" => lacking
            /\ pc = "done" =>
                   /\ ~lacking
                   /\ IsEnd(ret[Len(ret)], "EngineeringData")

C7_Witness ==
    /\ pc = "failed"
    /\ err = "KeyError"
    /\ "E_y" \notin columns
    /\ Len(df) = 2
    /\ FoldedType(df[1]) = isotropic
    /\ FoldedType(df[2]) = orthotropic
    /\ ret = <<>>

\* --------------------------------------------------------------------- C8
\* The text of the Behavior qualifier of the Elasticity block the document
\* ends with.
BehaviorOf(doc) ==
    LET el == ElasticityOf(doc)
        q == Min({i \in 1..Len(el) :
                     IsStart(el[i], "Qualifier") /\ AttrOf(el[i], "name") = "Behavior"})
    IN  TextOf(el, q, "Qualifier")

Tail_(doc, n) == SubSeq(doc, Len(doc) - n + 1, Len(doc))

\* C8: the block of a row whose Type is neither Isotropic nor Orthotropic is
\* the block of the same row with Type Orthotropic, and the Behavior
\* qualifier of every block is Isotropic or Orthotropic.
C8_FallbackIsOrthotropic ==
    Appended =>
        /\ FoldedType(LastRow) \notin {isotropic, orthotropic} =>
               LET b == build_material_block([LastRow EXCEPT !["Tipo"] = TypeOrtho]).block
               IN  Tail_(xml_out, Len(b)) = b
        /\ BehaviorOf(xml_out) \in {Isotropic, str(TypeOrtho)}

\* --------------------------------------------------------------------- C9
\* The markup of a document, and how many elements are open before place i.
Markup(doc) == SelectSeq(doc, LAMBDA t : t.k \in {"open", "close", "empty"})
Depth(m, i) ==
    Cardinality({j \in 1..(i - 1) : m[j].k = "open"})
    - Cardinality({j \in 1..(i - 1) : m[j].k = "close"})

\* Every end tag closes the element opened last, and none stays open.
WellFormed(doc) ==
    LET m == Markup(doc)
    IN  /\ Depth(m, Len(m) + 1) = 0
        /\ \A i \in 1..Len(m) :
               m[i].k = "close" =>
                   LET d == Depth(m, i)
                       opened == {j \in 1..(i - 1) :
                                     m[j].k = "open" /\ Depth(m, j) = d - 1}
                   IN  /\ d >= 1
                       /\ opened # {}
                       /\ m[Max(opened)].n = m[i].n

\* <<depth, name>> of the elements at depth 3 or less, in document order.
Outline(doc) ==
    LET m == Markup(doc)
        at == SelectSeq([i \in 1..Len(m) |-> i],
                        LAMBDA i : m[i].k \in {"open", "empty"} /\ Depth(m, i) <= 3)
    IN  [i \in 1..Len(at) |-> <<Depth(m, at[i]), m[at[i]].n>>]

FixedOutline(n) ==
    << <<0, "EngineeringData">>, <<1, "Notes">>, <<1, "Materials">>,
       <<2, "MatML_Doc">> >>
    \o [k \in 1..n |-> <<3, "Material">>]
    \o << <<3, "Metadata">> >>

\* C9: whatever the texts of the rows and of the label, the document convert
\* returns has the fixed structure: every element closed in nesting order,
\* EngineeringData holding Notes and Materials, Materials holding MatML_Doc,
\* MatML_Doc holding one Material for each row and then one Metadata.
C9_FixedStructure ==
    pc = "done" =>
        WellFormed(ret) /\ Outline(ret) = FixedOutline(Len(df))

\* -------------------------------------------------------------------- C10
\* What the Material blocks of a document refer to by the attribute attr of
\* the elements called name.
Referenced(doc, name, attr) ==
    LET body == SubSeq(doc, 1, Len(doc) - Len(MetadataOf(doc)))
    IN  {AttrOf(body[i], attr) : i \in {j \in 1..Len(body) : IsStart(body[j], name)}}

\* C10: in the document convert returns, every parameter a ParameterValue
\* refers to has a ParameterDetails entry in the Metadata section, and every
\* property a PropertyData refers to has a PropertyDetails entry.
C10_Referenced ==
    pc = "done" =>
        /\ Referenced(ret, "ParameterValue", "parameter")
               \subseteq Range(DetailIds(MetadataOf(ret), "ParameterDetails"))
        /\ Referenced(ret, "PropertyData", "property")
               \subseteq Range(DetailIds(MetadataOf(ret), "PropertyDetails"))

====
